---- MODULE Spec2Model ----
(***************************************************************************)
(* Model of backend/steganography.py (class ImageSteganography): LSB       *)
(* embedding / extraction of a text payload in the samples of an RGB       *)
(* image, with optional password based encryption of the payload.          *)
(*                                                                         *)
(* Representation                                                          *)
(*   - a Python str is a sequence of code points (naturals);               *)
(*   - a bytes object is a sequence of naturals in 0..255;                 *)
(*   - the '0'/'1' strings binary_data are sequences of the digits 0, 1;   *)
(*   - an image file is a record [mode, size, data], data being the        *)
(*     samples in raster order; a numpy array is a record [shape, a] with  *)
(*     a[row][column][channel] (1-based).                                  *)
(*   - the file system is the function files, path -> image or NoFile.     *)
(***************************************************************************)
EXTENDS Integers, Sequences, FiniteSets, TLC

VARIABLES
    files,      \* path -> image record, or NoFile
    embedded,   \* ghost: path -> what the last successful hide_data wrote there
    sealed,     \* ghost: the (key, nonce, ciphertext, tag) tuples AES-GCM produced
    hideCall,   \* the last hide_data call: arguments, return value, locals
    extractCall,\* the result the caller holds of an extract_data call
    decryptCall,\* the result the caller holds of a _decrypt_data call
    nHides,     \* number of hide_data calls so far
    nTampers,   \* number of sample corruptions so far
    capacityCall, \* the result the caller holds of an analyze_image_capacity call
    chain,      \* the contract's records: image id -> (ipfsHash, metadataHash, exists)
    ipfs,       \* the content hashes IPFS holds
    uploads,    \* the files in the service's upload folder
    apiHide,    \* the last /api/hide request: its response and what it stored
    apiFetch,   \* the last /api/extract or /api/download request and its response
    nRequests,  \* number of /api/hide requests so far
    nFetches,   \* number of /api/extract and /api/download requests so far
    stego,      \* the one ImageSteganography instance: its attributes
    frames      \* the calls running on it at once: each call's position and locals

codecVars == <<files, embedded, sealed, hideCall, extractCall, decryptCall, nHides, nTampers,
               capacityCall>>

appVars == <<chain, ipfs, uploads, apiHide, apiFetch, nRequests, nFetches>>

threadVars == <<stego, frames>>

vars == <<codecVars, appVars, threadVars>>

(***************************************************************************)
(* Bounds of the model.                                                    *)
(***************************************************************************)
MaxHides == 1
MaxTampers == 1
MaxRequests == 2
MaxFetches == 2
MaxCalls == 1

(***************************************************************************)
(* Program constants.                                                      *)
(***************************************************************************)
delimiter == <<1,1,1,1,1,1,1,1,1,1,1,1,1,1,1,0>>
SaltLen == 16
NonceLen == 16
TagLen == 16
DkLen == 32
KdfCount == 100000
AsciiMax == 127
Channels == 3

\* a path at which no file exists
NoFile == [mode |-> "none", size |-> <<0, 0>>, data |-> <<>>]
\* Python's None where a path is expected
None == "None"
\* an optional password argument: None, or a str
NonePw == [given |-> FALSE, s |-> <<>>]
Pw(str) == [given |-> TRUE, s |-> str]
\* variant: "if password is not None:"
NotNone(p) == p.given

\* truth value of "if password:"
Truthy(p) == p.given /\ p.s # <<>>

(***************************************************************************)
(* Generic helpers.                                                        *)
(***************************************************************************)
\* sum of s[lo..hi], by halving (the recursion stays shallow)
RECURSIVE SumRange(_, _, _)
SumRange(s, lo, hi) ==
    IF lo > hi THEN 0
    ELSE IF lo = hi THEN s[lo]
    ELSE LET mid == (lo + hi) \div 2
         IN  SumRange(s, lo, mid) + SumRange(s, mid + 1, hi)

SumSeq(s) == SumRange(s, 1, Len(s))

\* concatenation of the sequences ss[lo..hi], by halving
RECURSIVE JoinRange(_, _, _)
JoinRange(ss, lo, hi) ==
    IF lo > hi THEN <<>>
    ELSE IF lo = hi THEN ss[lo]
    ELSE LET mid == (lo + hi) \div 2
         IN  JoinRange(ss, lo, mid) \o JoinRange(ss, mid + 1, hi)

Join(ss) == JoinRange(ss, 1, Len(ss))

\* the sequence f, as an explicit tuple: the same value, its elements computed once
Tup(f) == f \o <<>>

MinOf(S) == CHOOSE x \in S : \A y \in S : x <= y

(***************************************************************************)
(* format(ord(char), '08b'): the binary digits of n, most significant      *)
(* first, zero padded on the left to a MINIMUM width of 8 (a code point    *)
(* above 255 yields more than 8 digits).                                   *)
(***************************************************************************)
RECURSIVE Bin(_)
Bin(n) == IF n < 2 THEN <<n>> ELSE Append(Bin(n \div 2), n % 2)

\* variant: format(ord(char), 'b'), no zero padding
FormatB(n) == Bin(n)

Format08b(n) ==
    LET b == Bin(n)
        pad == 8 - Len(b)
    IN  IF pad <= 0 THEN b
        ELSE Tup([i \in 1..8 |-> IF i <= pad THEN 0 ELSE b[i - pad]])

\* int(byte, 2) for a string of binary digits
RECURSIVE Int2(_)
Int2(b) == IF b = <<>> THEN 0 ELSE 2 * Int2(SubSeq(b, 1, Len(b) - 1)) + b[Len(b)]

\* str.find(sub): lowest 0-based index where sub occurs, -1 when it does not
Find(s, sub) ==
    LET str == Tup(s)
        hits == {i \in 0..(Len(str) - Len(sub)) : SubSeq(str, i + 1, i + Len(sub)) = sub}
    IN  IF hits = {} THEN -1 ELSE MinOf(hits)

(***************************************************************************)
(* PIL / numpy: images and arrays.                                         *)
(***************************************************************************)
\* img.convert('RGB') when img.mode != 'RGB' (greyscale: the sample is replicated)
ConvertRGB(img) ==
    IF img.mode = "RGB" THEN img
    ELSE [mode |-> "RGB", size |-> img.size,
          data |-> Tup([k \in 1..(Len(img.data) * Channels) |->
                          img.data[((k - 1) \div Channels) + 1]])]

\* np.array(img) for an RGB image: shape (height, width, 3); a[r][c][ch], 1-based
NpArray(img) ==
    LET w == img.size[1]
        h == img.size[2]
    IN  [shape |-> <<h, w, Channels>>,
         a |-> Tup([r \in 1..h |-> Tup([c \in 1..w |-> Tup([ch \in 1..Channels |->
                   img.data[((r - 1) * w + (c - 1)) * Channels + ch]])])])]

\* ndarray.size
ArraySize(arr) == arr.shape[1] * arr.shape[2] * arr.shape[3]

\* variant: the samples taken plane by plane (all of channel 0 first)
FlattenChannelMajor(arr) ==
    LET h == arr.shape[1]
        w == arr.shape[2]
    IN  Tup([i \in 1..ArraySize(arr) |->
            arr.a[(((i - 1) % (h * w)) \div w) + 1][((i - 1) % w) + 1][((i - 1) \div (h * w)) + 1]])

\* ndarray.flatten(): a copy, in C (row-major, channel-minor) order
FlattenArray(arr) ==
    LET w == arr.shape[2]
        c == arr.shape[3]
    IN  Tup([i \in 1..ArraySize(arr) |->
            arr.a[((i - 1) \div (w * c)) + 1][(((i - 1) \div c) % w) + 1][((i - 1) % c) + 1]])

\* flat.reshape(shape)
ReshapeArray(flat, shape) ==
    [shape |-> shape,
     a |-> Tup([r \in 1..shape[1] |-> Tup([c \in 1..shape[2] |-> Tup([ch \in 1..shape[3] |->
               flat[((r - 1) * shape[2] + (c - 1)) * shape[3] + ch]])])])]

\* Image.fromarray(arr.astype('uint8')), then save as PNG (lossless)
FromArray(arr) ==
    LET h == arr.shape[1]
        w == arr.shape[2]
        c == arr.shape[3]
    IN  [mode |-> "RGB", size |-> <<w, h>>,
         data |-> Tup([k \in 1..(h * w * c) |->
             arr.a[((k - 1) \div (w * c)) + 1][(((k - 1) \div c) % w) + 1][((k - 1) % c) + 1] % 256])]

(***************************************************************************)
(* str.encode('utf-8') / bytes.decode('utf-8').                            *)
(***************************************************************************)
Utf8Char(cp) ==
    IF cp < 128 THEN <<cp>>
    ELSE IF cp < 2048 THEN <<192 + cp \div 64, 128 + (cp % 64)>>
    ELSE IF cp < 65536 THEN <<224 + cp \div 4096, 128 + ((cp \div 64) % 64), 128 + (cp % 64)>>
    ELSE <<240 + cp \div 262144, 128 + ((cp \div 4096) % 64),
           128 + ((cp \div 64) % 64), 128 + (cp % 64)>>

Utf8Encode(s) == Join(Tup([i \in 1..Len(s) |-> Utf8Char(s[i])]))

IsCont(b, i) == i <= Len(b) /\ b[i] >= 128 /\ b[i] <= 191

RECURSIVE Utf8Decode(_)
Utf8Decode(b) ==
    IF \A i \in 1..Len(b) : b[i] < 128 THEN [ok |-> TRUE, text |-> b]
    ELSE
      LET b1 == b[1]
          n  == IF b1 < 128 THEN 1
                ELSE IF b1 >= 194 /\ b1 <= 223 /\ IsCont(b, 2) THEN 2
                ELSE IF b1 >= 224 /\ b1 <= 239 /\ IsCont(b, 2) /\ IsCont(b, 3) THEN 3
                ELSE IF b1 >= 240 /\ b1 <= 244 /\ IsCont(b, 2) /\ IsCont(b, 3) /\ IsCont(b, 4) THEN 4
                ELSE 0
          cp == IF n = 1 THEN b1
                ELSE IF n = 2 THEN (b1 - 192) * 64 + (b[2] - 128)
                ELSE IF n = 3 THEN (b1 - 224) * 4096 + (b[2] - 128) * 64 + (b[3] - 128)
                ELSE IF n = 4 THEN (b1 - 240) * 262144 + (b[2] - 128) * 4096
                                   + (b[3] - 128) * 64 + (b[4] - 128)
                ELSE 0
          valid == /\ n > 0
                   /\ (n = 3 => cp >= 2048 /\ ~(cp >= 55296 /\ cp <= 57343))
                   /\ (n = 4 => cp >= 65536 /\ cp <= 1114111)
      IN  IF ~valid THEN [ok |-> FALSE, text |-> <<>>]
          ELSE LET rest == Utf8Decode(SubSeq(b, n + 1, Len(b)))
               IN  IF rest.ok THEN [ok |-> TRUE, text |-> <<cp>> \o rest.text]
                   ELSE rest

(***************************************************************************)
(* base64.b64encode / base64.b64decode (the standard library).             *)
(***************************************************************************)
\* '=' is character 61
IsPad(c) == c = 61

B64Char(v) ==
    IF v < 26 THEN 65 + v
    ELSE IF v < 52 THEN 97 + (v - 26)
    ELSE IF v < 62 THEN 48 + (v - 52)
    ELSE IF v = 62 THEN 43 ELSE 47

\* value of a base64 alphabet character, 64 for any other character
B64Value(c) ==
    IF c >= 65 /\ c <= 90 THEN c - 65
    ELSE IF c >= 97 /\ c <= 122 THEN c - 97 + 26
    ELSE IF c >= 48 /\ c <= 57 THEN c - 48 + 52
    ELSE IF c = 43 THEN 62
    ELSE IF c = 47 THEN 63 ELSE 64

ByteAt(b, i) == IF i <= Len(b) THEN b[i] ELSE 0

\* variant: the raw bytes as text, (salt + ...).decode('latin-1')
Latin1Text(b) == b

b64encode(b) ==
    LET groups == (Len(b) + 2) \div 3
    IN  Tup([j \in 1..(4 * groups) |->
            LET g == (j - 1) \div 4
                k == (j - 1) % 4
                v == ByteAt(b, 3 * g + 1) * 65536 + ByteAt(b, 3 * g + 2) * 256
                     + ByteAt(b, 3 * g + 3)
                sextet == IF k = 0 THEN v \div 262144
                          ELSE IF k = 1 THEN (v \div 4096) % 64
                          ELSE IF k = 2 THEN (v \div 64) % 64
                          ELSE v % 64
            IN  IF k >= 2 /\ 3 * g + k > Len(b) THEN 61 ELSE B64Char(sextet)])

\* binascii.a2b_base64 in its default, non-strict mode.  Characters outside
\* the alphabet are skipped.  A '=' met at quad position 3, or a second
\* successive '=' met at quad position 2, ends the parse; any other '=' is
\* skipped.  Data that ends inside a quad is an error ("Incorrect padding").
\* Every quad of data characters yields three bytes; the two or three data
\* characters before a closing pad yield one or two.
IsData(c) == B64Value(c) < 64
IsSignificant(c) == IsData(c) \/ IsPad(c)

\* number of data characters among sig[1..i-1], modulo 4
QuadPos(sig, i) == Len(SelectSeq(SubSeq(sig, 1, i - 1), IsData)) % 4

\* the positions at which a pad ends the parse
PadStops(sig) ==
    {i \in 1..Len(sig) :
        /\ IsPad(sig[i])
        /\ \/ QuadPos(sig, i) = 3
           \/ QuadPos(sig, i) = 2 /\ i > 1 /\ IsPad(sig[i - 1])}

\* byte j decoded from the data characters v
B64Byte(v, j) ==
    LET g == (j - 1) \div 3
        r == (j - 1) % 3
    IN  IF r = 0 THEN B64Value(v[4 * g + 1]) * 4 + B64Value(v[4 * g + 2]) \div 16
        ELSE IF r = 1 THEN (B64Value(v[4 * g + 2]) % 16) * 16 + B64Value(v[4 * g + 3]) \div 4
        ELSE (B64Value(v[4 * g + 3]) % 4) * 64 + B64Value(v[4 * g + 4])

B64Bytes(v, terminated) ==
    IF ~terminated /\ Len(v) % 4 # 0 THEN [ok |-> FALSE, bytes |-> <<>>]
    ELSE [ok |-> TRUE,
          bytes |-> Tup([j \in 1..(3 * (Len(v) \div 4)
                                   + (IF Len(v) % 4 = 2 THEN 1
                                      ELSE IF Len(v) % 4 = 3 THEN 2 ELSE 0)) |->
                          B64Byte(v, j)])]

B64Parse(sig, stops) ==
    B64Bytes(SelectSeq(SubSeq(sig, 1, (IF stops = {} THEN Len(sig) + 1 ELSE MinOf(stops)) - 1),
                       IsData),
             stops # {})

B64Significant(sig) == B64Parse(sig, PadStops(sig))

b64decode(s) == B64Significant(SelectSeq(s, IsSignificant))

\* Python slices b[lo:hi] and b[lo:]
Slice(b, lo, hi) == SubSeq(b, lo + 1, IF hi < Len(b) THEN hi ELSE Len(b))
SliceFrom(b, lo) == SubSeq(b, lo + 1, Len(b))

(***************************************************************************)
(* Crypto primitives (PyCryptodome).  PBKDF2 is a symbolic, injective      *)
(* function of its parameters.  AES-GCM is an IDEAL authenticated cipher:  *)
(* ciphertext has the length of the plaintext, decryption under the same   *)
(* key and nonce inverts encryption, and decrypt_and_verify accepts        *)
(* exactly the (key, nonce, ciphertext, tag) tuples that                   *)
(* encrypt_and_digest produced (the ghost set sealed): no forgery.         *)
(***************************************************************************)
PBKDF2(password, salt, dkLen, count) ==
    [password |-> password, salt |-> salt, dkLen |-> dkLen, count |-> count]

Keystream(key, nonce) ==
    (7 * SumSeq(key.password) + 3 * SumSeq(key.salt) + SumSeq(nonce)
       + key.dkLen + key.count) % 256

GcmEncrypt(key, nonce, pt) ==
    Tup([i \in 1..Len(pt) |-> (pt[i] + Keystream(key, nonce) + i) % 256])

GcmDecrypt(key, nonce, ct) ==
    Tup([i \in 1..Len(ct) |-> (ct[i] + 1024 - Keystream(key, nonce) - i) % 256])

GcmTag(key, nonce, ct) ==
    Tup([i \in 1..TagLen |-> (5 * Keystream(key, nonce) + SumSeq(ct) + 11 * i) % 256])

GcmVerify(key, nonce, ct, tag) == <<key, nonce, ct, tag>> \in sealed

(***************************************************************************)
(* _encrypt_data(data, password); salt and nonce are the random draws.     *)
(***************************************************************************)
\* an envelope that leaves the 16-byte tag out of the encoded bytes
EnvelopeNoTag(key, salt, nonce, ciphertext, tag) ==
    [text |-> Utf8Decode(b64encode(salt \o nonce \o ciphertext)).text,
     seal |-> <<key, nonce, ciphertext, tag>>]

\* base64.b64encode(salt + cipher.nonce + tag + ciphertext).decode('utf-8')
Envelope(key, salt, nonce, ciphertext, tag) ==
    [text |-> Utf8Decode(b64encode(salt \o nonce \o tag \o ciphertext)).text,
     seal |-> <<key, nonce, ciphertext, tag>>]

\* cipher.encrypt_and_digest(data.encode('utf-8'))
EncryptAndDigest(key, salt, nonce, ciphertext) ==
    Envelope(key, salt, nonce, ciphertext, GcmTag(key, nonce, ciphertext))

EncryptWithKey(key, data, salt, nonce) ==
    EncryptAndDigest(key, salt, nonce, GcmEncrypt(key, nonce, Utf8Encode(data)))

encrypt_data(data, password, salt, nonce) ==
    EncryptWithKey(PBKDF2(password, salt, DkLen, KdfCount), data, salt, nonce)

(***************************************************************************)
(* _decrypt_data(encrypted_data, password): every exception is re-raised   *)
(* as Exception("Decryption failed: ...").                                 *)
(***************************************************************************)
DecryptFailed(detail) == [ok |-> FALSE, text |-> <<>>, error |-> "Decryption failed: " \o detail]

\* decrypted_data.decode('utf-8')
DecodePlain(plain) ==
    IF ~plain.ok THEN DecryptFailed("'utf-8' codec can't decode")
    ELSE [ok |-> TRUE, text |-> plain.text, error |-> ""]

\* variant: decrypt() without verify(): the tag is never compared
DecryptUnverified(key, nonce, ciphertext, tag) ==
    DecodePlain(Utf8Decode(GcmDecrypt(key, nonce, ciphertext)))

\* cipher.decrypt_and_verify(ciphertext, tag)
DecryptAndVerify(key, nonce, ciphertext, tag) ==
    IF ~GcmVerify(key, nonce, ciphertext, tag) THEN DecryptFailed("MAC check failed")
    ELSE DecodePlain(Utf8Decode(GcmDecrypt(key, nonce, ciphertext)))

\* key = PBKDF2(...); cipher = AES.new(key, AES.MODE_GCM, nonce=nonce)
DecryptParts(salt, nonce, tag, ciphertext, password) ==
    IF nonce = <<>> THEN DecryptFailed("Nonce cannot be empty")
    ELSE DecryptAndVerify(PBKDF2(password, salt, DkLen, KdfCount), nonce, ciphertext, tag)

\* variant: the envelope read as salt, tag, nonce, ciphertext
DecryptDecodedTagFirst(decoded, password) ==
    IF ~decoded.ok THEN DecryptFailed("Incorrect padding")
    ELSE DecryptParts(Slice(decoded.bytes, 0, 16), Slice(decoded.bytes, 32, 48),
                      Slice(decoded.bytes, 16, 32), SliceFrom(decoded.bytes, 48), password)

\* the four slices of encrypted_bytes
DecryptDecoded(decoded, password) ==
    IF ~decoded.ok THEN DecryptFailed("Incorrect padding")
    ELSE DecryptParts(Slice(decoded.bytes, 0, 16), Slice(decoded.bytes, 16, 32),
                      Slice(decoded.bytes, 32, 48), SliceFrom(decoded.bytes, 48), password)

decrypt_data(encrypted_data, password) ==
    DecryptDecoded(b64decode(Utf8Encode(encrypted_data)), password)

(***************************************************************************)
(* hide_data(image_path, secret_data, password, output_path).              *)
(***************************************************************************)
\* variant: flat_img[i] | int(bit), the old LSB is not cleared
SetLsbOr(sample, bit) == IF sample % 2 = 1 THEN sample ELSE sample + bit

\* (flat_img[i] & 0xFE) | int(bit) on a uint8 sample
SetLsb(sample, bit) == (sample - (sample % 2)) + bit

\* variant: the delimiter is not appended
ToBinaryNoDelimiter(data_to_hide) ==
    Join(Tup([i \in 1..Len(data_to_hide) |-> Format08b(data_to_hide[i])]))

\* ''.join(format(ord(char), '08b') for char in data_to_hide) + self.delimiter
ToBinary(data_to_hide) ==
    Join(Tup([i \in 1..Len(data_to_hide) |-> Format08b(data_to_hide[i])])) \o delimiter

\* variant: the comparison is >=, an exact fit is refused
ImageTooSmallOrFull(binary_data, max_capacity) == Len(binary_data) >= max_capacity

\* variant: no capacity check, the loop's "if i < len(flat_img)" truncates
ImageNeverTooSmall(binary_data, max_capacity) == FALSE

\* the capacity check: raise ValueError("Image too small. ...")
ImageTooSmall(binary_data, max_capacity) == Len(binary_data) > max_capacity

\* variant: the loop runs over the whole buffer, padding with 0 bits
EmbedBitsWholeBuffer(flat_img, binary_data) ==
    Tup([i \in 1..Len(flat_img) |->
        SetLsb(flat_img[i], IF i <= Len(binary_data) THEN binary_data[i] ELSE 0)])

\* the embedding loop over enumerate(binary_data)
EmbedBits(flat_img, binary_data) ==
    Tup([i \in 1..Len(flat_img) |->
        IF i <= Len(binary_data) THEN SetLsb(flat_img[i], binary_data[i]) ELSE flat_img[i]])

\* os.path.join(os.path.dirname(image_path), f"stego_{os.path.basename(image_path)}")
StegoName(image_path) == "stego_" \o image_path

HideFailed(printed, payload, binary_data, max_capacity, samples) ==
    [ret |-> None, printed |-> printed, saved |-> NoFile,
     data_to_hide |-> payload.text, binary_data |-> binary_data,
     max_capacity |-> max_capacity, samples |-> samples, seals |-> payload.seals]

\* reshape, Image.fromarray, save as PNG, return output_path
HideSave(img_array, payload, binary_data, flat_img, out) ==
    [ret |-> out, printed |-> "Data hidden successfully",
     saved |-> FromArray(ReshapeArray(flat_img, img_array.shape)),
     data_to_hide |-> payload.text, binary_data |-> binary_data,
     max_capacity |-> ArraySize(img_array), samples |-> flat_img, seals |-> payload.seals]

\* the capacity check, then the embedding loop on flat_img
HideBits(img_array, payload, binary_data, out) ==
    IF ImageTooSmall(binary_data, ArraySize(img_array))
    THEN HideFailed("Image too small", payload, binary_data, ArraySize(img_array),
                    FlattenArray(img_array))
    ELSE HideSave(img_array, payload, binary_data,
                  EmbedBits(FlattenArray(img_array), binary_data), out)

HideEmbed(img_array, payload, out) ==
    HideBits(img_array, payload, ToBinary(payload.text), out)

\* data_to_hide: secret_data, or its envelope "if password:"
Sealed(enc) == [text |-> enc.text, seals |-> {enc.seal}]

Payload(secret_data, password, salt, nonce) ==
    IF password # <<>> THEN Sealed(encrypt_data(secret_data, password, salt, nonce))
    ELSE [text |-> secret_data, seals |-> {}]

OutputPath(image_path, output_path) ==
    IF output_path = None THEN StegoName(image_path) ELSE output_path

HideRun(fs, image_path, secret_data, password, output_path, salt, nonce) ==
    IF fs[image_path] = NoFile
    THEN HideFailed("No such file or directory", [text |-> <<>>, seals |-> {}], <<>>, 0, <<>>)
    ELSE HideEmbed(NpArray(ConvertRGB(fs[image_path])),
                   Payload(secret_data, password, salt, nonce),
                   OutputPath(image_path, output_path))

(***************************************************************************)
(* extract_data(image_path, password).                                     *)
(***************************************************************************)
\* the LSB of every sample, in flattened order
LsbString(img_array) == Tup([i \in 1..Len(img_array) |-> img_array[i] % 2])

\* the character codes of the 8-bit groups of actual_binary_data
CharCodes(actual_binary_data) ==
    Tup([k \in 1..(Len(actual_binary_data) \div 8) |->
        Int2(SubSeq(actual_binary_data, 8 * (k - 1) + 1, 8 * k))])

\* variant: every group is appended, the range test is missing
AsciiPrefixUnchecked(codes) == codes

\* variant: the range test is 0 <= char_code <= 255
AsciiPrefixLatin1(codes) ==
    LET bad == {k \in 1..Len(codes) : ~(0 <= codes[k] /\ codes[k] <= 255)}
        stop == IF bad = {} THEN Len(codes) + 1 ELSE MinOf(bad)
    IN  SubSeq(codes, 1, stop - 1)

\* the decoding loop: append chr(char_code) while 0 <= char_code <= 127, break at
\* the first other code
AsciiPrefix(codes) ==
    LET bad == {k \in 1..Len(codes) : ~(0 <= codes[k] /\ codes[k] <= AsciiMax)}
        stop == IF bad = {} THEN Len(codes) + 1 ELSE MinOf(bad)
    IN  SubSeq(codes, 1, stop - 1)

ExtractFailed(msg, recovered, detail) ==
    [ok |-> FALSE, value |-> <<>>, error |-> "Data extraction failed: " \o msg,
     recovered |-> recovered, detail |-> detail]

ExtractOk(final, recovered) ==
    [ok |-> TRUE, value |-> final, error |-> "", recovered |-> recovered, detail |-> ""]

\* "if not extracted_text: raise ValueError(...)", else return extracted_text
ExtractFinal(final, recovered) ==
    IF final = <<>> THEN ExtractFailed("No valid data could be extracted", recovered, "")
    ELSE ExtractOk(final, recovered)

\* variant: except Exception as e: raise ValueError(str(e))
ExtractDecryptedDetailed(extracted_text, dec) ==
    IF ~dec.ok THEN ExtractFailed(dec.error, extracted_text, dec.error)
    ELSE ExtractFinal(dec.text, extracted_text)

\* try: _decrypt_data(...) except: raise ValueError("Incorrect password ...")
ExtractDecrypted(extracted_text, dec) ==
    IF ~dec.ok
    THEN ExtractFailed("Incorrect password or corrupted encrypted data", extracted_text, dec.error)
    ELSE ExtractFinal(dec.text, extracted_text)

\* "if password:"
ExtractText(extracted_text, password) ==
    IF Truthy(password)
    THEN ExtractDecrypted(extracted_text, decrypt_data(extracted_text, password.s))
    ELSE ExtractFinal(extracted_text, extracted_text)

\* variant: no length check, "if len(byte) == 8" skips the incomplete last group
ExtractActualUnchecked(actual_binary_data, password) ==
    ExtractText(AsciiPrefix(CharCodes(actual_binary_data)), password)

\* the length check and the decoding loop
ExtractActual(actual_binary_data, password) ==
    IF Len(actual_binary_data) % 8 # 0
    THEN ExtractFailed("Invalid data length - not divisible by 8", <<>>, "")
    ELSE ExtractText(AsciiPrefix(CharCodes(actual_binary_data)), password)

\* variant: find()'s -1 is not tested, binary_data[:-1] is decoded
ExtractAtUnchecked(binary_data, delimiter_index, password) ==
    ExtractActual(SubSeq(binary_data, 1,
                         IF delimiter_index = -1 THEN Len(binary_data) - 1 ELSE delimiter_index),
                  password)

\* binary_data[:delimiter_index]
ExtractAt(binary_data, delimiter_index, password) ==
    IF delimiter_index = -1
    THEN ExtractFailed("No hidden data found or data corrupted", <<>>, "")
    ELSE ExtractActual(SubSeq(binary_data, 1, delimiter_index), password)

ExtractBits(binary_data, password) ==
    ExtractAt(binary_data, Find(binary_data, delimiter), password)

ExtractRun(fs, image_path, password) ==
    IF fs[image_path] = NoFile
    THEN ExtractFailed("No such file or directory", <<>>, "")
    ELSE ExtractBits(LsbString(FlattenArray(NpArray(ConvertRGB(fs[image_path])))), password)

(***************************************************************************)
(* analyze_image_capacity(image_path): max_characters / max_bytes.         *)
(***************************************************************************)
\* variant: the marker is not subtracted
MaxCharsNoMarker(total_pixels) == total_pixels \div 8

\* (total_pixels - len(self.delimiter)) // 8, a floor division
MaxChars(total_pixels) == (total_pixels - Len(delimiter)) \div 8

AnalyzeFailed(detail) ==
    [ok |-> FALSE, total_pixels |-> 0, max_characters |-> 0, max_bytes |-> 0,
     image_dimensions |-> <<0, 0>>, error |-> "Image analysis failed: " \o detail]

AnalyzeImage(img, total_pixels) ==
    [ok |-> TRUE, total_pixels |-> total_pixels, max_characters |-> MaxChars(total_pixels),
     max_bytes |-> MaxChars(total_pixels), image_dimensions |-> img.size, error |-> ""]

AnalyzeRun(fs, image_path) ==
    IF fs[image_path] = NoFile THEN AnalyzeFailed("No such file or directory")
    ELSE AnalyzeImage(ConvertRGB(fs[image_path]), ArraySize(NpArray(ConvertRGB(fs[image_path]))))

(***************************************************************************)
(* Inputs of the model: carrier images, payloads, passwords, random draws. *)
(***************************************************************************)
Sample(pat, i) ==
    CASE pat = "zeros" -> 0
      [] pat = "ones"  -> 255
      [] pat = "mixed" -> (37 * i + 11) % 256
      [] pat = "gap20" -> IF i = 20 THEN 254 ELSE 255
      [] pat = "gap32" -> IF i = 32 THEN 254 ELSE 255
      [] pat = "gap48" -> IF i = 48 THEN 254 ELSE 255

Carrier(mode, w, h, pat) ==
    [mode |-> mode, size |-> <<w, h>>,
     data |-> Tup([i \in 1..(w * h * (IF mode = "RGB" THEN Channels ELSE 1)) |-> Sample(pat, i)])]

\* carriers of the plain-text runs: 15, 24, 39, 48 and 300 samples
Carriers ==
    { Carrier("RGB", 10, 10, "mixed"),
      Carrier("RGB", 5, 1, "zeros"),
      Carrier("RGB", 4, 2, "zeros"),
      Carrier("RGB", 4, 2, "ones"),
      Carrier("L", 4, 2, "mixed"),        \* greyscale, 24 samples once RGB
      Carrier("RGB", 13, 1, "mixed"),
      Carrier("RGB", 13, 1, "gap20"),
      Carrier("RGB", 13, 1, "gap32"),
      Carrier("RGB", 16, 1, "gap48") }    \* LSBs: four groups 11111111, then a marker

\* carriers of the password runs: 528 and 561 samples, the sizes at which
\* the envelope of an empty / a one to three byte plaintext just fits
CipherCarriers ==
    { Carrier("RGB", 16, 11, "zeros"),
      Carrier("RGB", 17, 11, "mixed") }

Salt(b) == Tup([i \in 1..SaltLen |-> (b + i) % 256])
Nonce(b) == Tup([i \in 1..NonceLen |-> (b + 3 * i) % 256])

\* "p4" and "q4"
pwP == <<112, 52>>
pwQ == <<113, 52>>

Plain(str) == [secret_data |-> str, password |-> <<>>, salt |-> <<>>, nonce |-> <<>>]
Secret(str, pw, b) == [secret_data |-> str, password |-> pw, salt |-> Salt(b), nonce |-> Nonce(b)]

HideInputs ==
    { Plain(<<>>),              \* ""
      Plain(<<65>>),            \* "A"
      Plain(<<104, 105>>),      \* "hi"
      Plain(<<104, 233>>),      \* "h" + e-acute
      Plain(<<233>>),           \* e-acute
      Plain(<<127>>),           \* DEL: seven 1 bits next to the marker
      Plain(<<256>>),           \* A-macron: nine binary digits
      Secret(<<104, 105>>, pwP, 0) }

CipherHideInputs ==
    { Secret(<<104, 105>>, pwP, 0),
      Secret(<<104, 105>>, pwP, 200),
      Secret(<<104, 233>>, pwP, 0),
      Secret(<<>>, pwP, 0),
      Secret(<<104, 105>>, pwQ, 0),
      Plain(<<104, 105>>) }

\* (image_path, output_path) of the hide_data calls
HideTargets == { <<"cover.png", None>>, <<"stego_cover.png", "stego_cover.png">> }

Paths == {"cover.png", "stego_cover.png"}

ExtractPasswords == {NonePw, Pw(<<>>), Pw(pwP), Pw(pwQ)}

\* 1-based sample indices an outside corruption of a stego file may hit
TamperPositions == {8, 20, 193, 400, 540}

\* what reaches _decrypt_data in place of an envelope: the text itself, the
\* text with a character outside the base64 alphabet inserted or appended,
\* the text cut to 60 characters (45 bytes) or by one character
Garbles == {"asis", "junk", "trail", "short", "cut1"}

Garble(kind, text) ==
    CASE kind = "asis"  -> text
      [] kind = "junk"  -> Slice(text, 0, 5) \o <<33>> \o SliceFrom(text, 5)
      [] kind = "trail" -> text \o <<33, 33>>
      [] kind = "short" -> Slice(text, 0, 60)
      [] kind = "cut1"  -> Slice(text, 0, Len(text) - 1)

NoEmbed ==
    [state |-> "none", secret_data |-> <<>>, password |-> <<>>, data_to_hide |-> <<>>,
     tamperedAt |-> 0]

NoHideCall ==
    [called |-> FALSE, image_path |-> "", secret_data |-> <<>>, password |-> <<>>,
     output_path |-> None, ret |-> None, printed |-> "", data_to_hide |-> <<>>,
     binary_data |-> <<>>, max_capacity |-> 0, before |-> <<>>, samples |-> <<>>]

NoExtractCall ==
    [called |-> FALSE, image_path |-> "", password |-> NonePw, ok |-> FALSE,
     value |-> <<>>, error |-> "", recovered |-> <<>>, detail |-> ""]

NoCapacityCall ==
    [called |-> FALSE, image_path |-> "", ok |-> FALSE, total_pixels |-> 0,
     max_characters |-> 0, max_bytes |-> 0, image_dimensions |-> <<0, 0>>, error |-> ""]

NoDecryptCall ==
    [called |-> FALSE, encrypted_data |-> <<>>, password |-> <<>>, ok |-> FALSE,
     text |-> <<>>, error |-> ""]

(***************************************************************************)
(* The service (app.py) around the codec: /api/hide uploads the stego      *)
(* image and its metadata to IPFS and stores their hashes in the contract  *)
(* under an image id; /api/extract and /api/download look the id up.       *)
(* The contract and IPFS are external: a content hash is the pair of a     *)
(* kind and the number of the request whose upload it names.               *)
(***************************************************************************)
\* the ids generate_image_id and the regeneration can draw
ImageIds == {"IMG-1", "IMG-2", "IMG-3"}

NoRecord == [ipfs_hash |-> <<"none", 0>>, metadata_hash |-> <<"none", 0>>, exists |-> FALSE]

ImageHash(n) == <<"image", n>>
MetadataHash(n) == <<"metadata", n>>

NoApiHide ==
    [called |-> FALSE, request |-> 0, success |-> FALSE, imageId |-> "",
     ipfsHash |-> <<"none", 0>>, metadataHash |-> <<"none", 0>>, error |-> "", storedAs |-> ""]

NoApiFetch ==
    [called |-> FALSE, route |-> "", imageId |-> "", success |-> FALSE,
     image |-> <<"none", 0>>, error |-> ""]

\* __init__: self.delimiter = '1111111111111110', the only attribute
NewInstance == [delimiter |-> delimiter]

\* the frames of the three calls before any of them has started
NoHideFrame ==
    [pc |-> "Idle", calls |-> 0, during |-> {}, image_path |-> "", secret_data |-> <<>>,
     output_path |-> None, img_array |-> <<>>, data_to_hide |-> <<>>, binary_data |-> <<>>,
     result |-> None]

NoExtractFrame ==
    [pc |-> "Idle", calls |-> 0, during |-> {}, image_path |-> "", password |-> NonePw,
     img_array |-> <<>>, binary_data |-> <<>>, delimiter_index |-> -1]

NoAnalyzeFrame ==
    [pc |-> "Idle", calls |-> 0, during |-> {}, image_path |-> "", img |-> NoFile,
     result |-> None]

NoFrames == [hide |-> NoHideFrame, extract |-> NoExtractFrame, analyze |-> NoAnalyzeFrame]

ThreadInit ==
    /\ stego = NewInstance
    /\ frames = NoFrames

AppInit ==
    /\ chain = [id \in ImageIds |-> NoRecord]
    /\ ipfs = {}
    /\ uploads = {}
    /\ apiHide = NoApiHide
    /\ apiFetch = NoApiFetch
    /\ nRequests = 0
    /\ nFetches = 0

(***************************************************************************)
(* The state machine.  One sequential caller: it holds at most one result  *)
(* of extract_data or _decrypt_data at a time and drops it (Forget) before *)
(* the next such call; a change of the files drops it too.                 *)
(***************************************************************************)
InitWith(carriers) ==
    /\ \E c \in carriers : files = [p \in Paths |-> IF p = "cover.png" THEN c ELSE NoFile]
    /\ embedded = [p \in Paths |-> NoEmbed]
    /\ sealed = {}
    /\ hideCall = NoHideCall
    /\ extractCall = NoExtractCall
    /\ decryptCall = NoDecryptCall
    /\ nHides = 0
    /\ nTampers = 0
    /\ capacityCall = NoCapacityCall
    /\ AppInit
    /\ ThreadInit

Init == InitWith(Carriers)

InitCipher == InitWith(CipherCarriers)

NoResultHeld ==
    extractCall = NoExtractCall /\ decryptCall = NoDecryptCall /\ capacityCall = NoCapacityCall

HideEffect(r, image_path, secret_data, password, output_path) ==
    /\ files' = IF r.ret # None THEN [files EXCEPT ![r.ret] = r.saved] ELSE files
    /\ embedded' = IF r.ret # None
                   THEN [embedded EXCEPT ![r.ret] =
                            [state |-> "intact", secret_data |-> secret_data,
                             password |-> password, data_to_hide |-> r.data_to_hide,
                             tamperedAt |-> 0]]
                   ELSE embedded
    /\ sealed' = sealed \cup r.seals
    /\ hideCall' =
         [called |-> TRUE, image_path |-> image_path, secret_data |-> secret_data,
          password |-> password, output_path |-> output_path, ret |-> r.ret,
          printed |-> r.printed, data_to_hide |-> r.data_to_hide,
          binary_data |-> r.binary_data, max_capacity |-> r.max_capacity,
          before |-> FlattenArray(NpArray(ConvertRGB(files[image_path]))),
          samples |-> r.samples]

hide_data(image_path, secret_data, password, output_path, salt, nonce) ==
    /\ nHides < MaxHides
    /\ HideEffect(HideRun(files, image_path, secret_data, password, output_path, salt, nonce),
                  image_path, secret_data, password, output_path)
    /\ nHides' = nHides + 1
    /\ extractCall' = NoExtractCall
    /\ decryptCall' = NoDecryptCall
    /\ capacityCall' = NoCapacityCall
    /\ UNCHANGED <<nTampers, appVars, threadVars>>

ExtractEffect(r, image_path, password) ==
    extractCall' =
        [called |-> TRUE, image_path |-> image_path, password |-> password,
         ok |-> r.ok, value |-> r.value, error |-> r.error,
         recovered |-> r.recovered, detail |-> r.detail]

extract_data(image_path, password) ==
    /\ NoResultHeld
    /\ ExtractEffect(ExtractRun(files, image_path, password), image_path, password)
    /\ UNCHANGED <<files, embedded, sealed, hideCall, decryptCall, nHides, nTampers,
                   capacityCall, appVars, threadVars>>

DecryptEffect(r, text, password) ==
    decryptCall' =
        [called |-> TRUE, encrypted_data |-> text, password |-> password,
         ok |-> r.ok, text |-> r.text, error |-> r.error]

DecryptText(text, password) == DecryptEffect(decrypt_data(text, password), text, password)

\* _decrypt_data applied to a variant of the text an earlier hide_data embedded
decrypt_call(path, kind, password) ==
    /\ NoResultHeld
    /\ embedded[path].state # "none"
    /\ DecryptText(Garble(kind, embedded[path].data_to_hide), password)
    /\ UNCHANGED <<files, embedded, sealed, hideCall, extractCall, nHides, nTampers,
                   capacityCall, appVars, threadVars>>

AnalyzeEffect(r, image_path) ==
    capacityCall' =
        [called |-> TRUE, image_path |-> image_path, ok |-> r.ok,
         total_pixels |-> r.total_pixels, max_characters |-> r.max_characters,
         max_bytes |-> r.max_bytes, image_dimensions |-> r.image_dimensions,
         error |-> r.error]

analyze_image_capacity(image_path) ==
    /\ NoResultHeld
    /\ AnalyzeEffect(AnalyzeRun(files, image_path), image_path)
    /\ UNCHANGED <<files, embedded, sealed, hideCall, extractCall, decryptCall, nHides,
                   nTampers, appVars, threadVars>>

Forget ==
    /\ ~NoResultHeld
    /\ extractCall' = NoExtractCall
    /\ decryptCall' = NoDecryptCall
    /\ capacityCall' = NoCapacityCall
    /\ UNCHANGED <<files, embedded, sealed, hideCall, nHides, nTampers, appVars, threadVars>>

\* the environment: one sample of a stored stego image gets its LSB flipped
FlipLsb(sample) == IF sample % 2 = 0 THEN sample + 1 ELSE sample - 1

Tamper(path, i) ==
    /\ nTampers < MaxTampers
    /\ embedded[path].state = "intact"
    /\ i <= Len(files[path].data)
    /\ files' = [files EXCEPT ![path].data[i] = FlipLsb(@)]
    /\ embedded' = [embedded EXCEPT ![path].state = "tampered", ![path].tamperedAt = i]
    /\ nTampers' = nTampers + 1
    /\ extractCall' = NoExtractCall
    /\ decryptCall' = NoDecryptCall
    /\ capacityCall' = NoCapacityCall
    /\ UNCHANGED <<sealed, hideCall, nHides, appVars, threadVars>>

Next ==
    \/ \E t \in HideTargets, x \in HideInputs :
          hide_data(t[1], x.secret_data, x.password, t[2], x.salt, x.nonce)
    \/ \E p \in Paths, pw \in ExtractPasswords : extract_data(p, pw)
    \/ \E p \in Paths, k \in Garbles, pw \in {pwP, pwQ} : decrypt_call(p, k, pw)
    \/ \E p \in Paths, i \in TamperPositions : Tamper(p, i)
    \/ \E p \in Paths : analyze_image_capacity(p)
    \/ Forget

NextCipher ==
    \/ \E t \in HideTargets, x \in CipherHideInputs :
          hide_data(t[1], x.secret_data, x.password, t[2], x.salt, x.nonce)
    \/ \E p \in Paths, pw \in ExtractPasswords : extract_data(p, pw)
    \/ \E p \in Paths, k \in Garbles, pw \in {pwP, pwQ} : decrypt_call(p, k, pw)
    \/ \E p \in Paths, i \in TamperPositions : Tamper(p, i)
    \/ \E p \in Paths : analyze_image_capacity(p)
    \/ Forget

Spec == Init /\ [][Next]_vars

SpecCipher == InitCipher /\ [][NextCipher]_vars

(***************************************************************************)
(* BlockchainClient.store_image_record / get_image_record.                 *)
(***************************************************************************)
\* "if existing_record[4]": a new id replaces the LOCAL image_id
StoreKey(ch, image_id, regenerated) ==
    IF ch[image_id].exists THEN regenerated ELSE image_id

\* the storeImageRecord transaction; on an id that exists the contract either
\* reverts (receipt.status 0) or overwrites
StoreTransaction(ch, key, ipfs_hash, metadata_hash, on_existing) ==
    IF ch[key].exists /\ on_existing = "revert"
    THEN [ok |-> FALSE, chain |-> ch, key |-> "",
          error |-> "Blockchain storage failed: Transaction failed with status: 0"]
    ELSE [ok |-> TRUE,
          chain |-> [ch EXCEPT ![key] = [ipfs_hash |-> ipfs_hash,
                                         metadata_hash |-> metadata_hash, exists |-> TRUE]],
          key |-> key, error |-> ""]

\* returns transaction_hash, block_number, gas_used: the key written is not
\* part of the result (the field key is a ghost)
store_image_record(ch, image_id, ipfs_hash, metadata_hash, regenerated, on_existing) ==
    StoreTransaction(ch, StoreKey(ch, image_id, regenerated), ipfs_hash, metadata_hash,
                     on_existing)

get_image_record(ch, image_id) ==
    IF ch[image_id].exists THEN [ok |-> TRUE, record |-> ch[image_id], error |-> ""]
    ELSE [ok |-> FALSE, record |-> NoRecord, error |-> "not found on blockchain"]

(***************************************************************************)
(* /api/hide.                                                              *)
(***************************************************************************)
HideResponse(n, image_id, st) ==
    IF st.ok
    THEN [called |-> TRUE, request |-> n, success |-> TRUE, imageId |-> image_id,
          ipfsHash |-> ImageHash(n), metadataHash |-> MetadataHash(n), error |-> "",
          storedAs |-> st.key]
    ELSE [called |-> TRUE, request |-> n, success |-> FALSE, imageId |-> "",
          ipfsHash |-> <<"none", 0>>, metadataHash |-> <<"none", 0>>,
          error |-> "Processing failed: " \o st.error, storedAs |-> ""]

\* file.save(filepath), safe_file_operations(temp_path, 'wb', ...), img.save(output_path)
SaveFile(folder, f) == folder \cup {f}

\* os.remove(path)
RemoveFile(folder, f) == folder \ {f}

\* stego.hide_data returned None: nothing is uploaded or stored; the saved
\* upload is removed in the finally block
HideRejected(n) ==
    /\ apiHide' = [NoApiHide EXCEPT !.called = TRUE, !.request = n,
                      !.error = "Processing failed: Failed to create steganographic image"]
    /\ uploads' = RemoveFile(SaveFile(uploads, <<"upload", n>>), <<"upload", n>>)
    /\ UNCHANGED <<chain, ipfs>>

\* the stego image stays in the upload folder; image and metadata go to IPFS
HideStored(n, image_id, st) ==
    /\ uploads' = RemoveFile(SaveFile(SaveFile(uploads, <<"upload", n>>), <<"stego", n>>),
                            <<"upload", n>>)
    /\ ipfs' = ipfs \cup {ImageHash(n), MetadataHash(n)}
    /\ chain' = st.chain
    /\ apiHide' = HideResponse(n, image_id, st)

api_hide(stego_ok, image_id, regenerated, on_existing) ==
    /\ nRequests < MaxRequests
    /\ IF stego_ok
       THEN HideStored(nRequests + 1, image_id,
                       store_image_record(chain, image_id, ImageHash(nRequests + 1),
                                          MetadataHash(nRequests + 1), regenerated,
                                          on_existing))
       ELSE HideRejected(nRequests + 1)
    /\ nRequests' = nRequests + 1
    /\ apiFetch' = NoApiFetch
    /\ UNCHANGED <<nFetches, codecVars, threadVars>>

(***************************************************************************)
(* /api/extract and /api/download.                                         *)
(***************************************************************************)
FetchFailed(route, image_id, error) ==
    [called |-> TRUE, route |-> route, imageId |-> image_id, success |-> FALSE,
     image |-> <<"none", 0>>, error |-> error]

\* blockchain.get_image_record, then ipfs.download_file(record['ipfs_hash'])
FetchImage(route, image_id, rec) ==
    IF ~rec.ok THEN FetchFailed(route, image_id, rec.error)
    ELSE IF rec.record.ipfs_hash \notin ipfs
         THEN FetchFailed(route, image_id, "IPFS download failed")
         ELSE [called |-> TRUE, route |-> route, imageId |-> image_id, success |-> TRUE,
               image |-> rec.record.ipfs_hash, error |-> ""]

\* the image is written to a temp file, which os.remove deletes only after
\* stego.extract_data returned
api_extract(image_id, extract_ok) ==
    /\ nFetches < MaxFetches
    /\ LET r == FetchImage("extract", image_id, get_image_record(chain, image_id))
       IN  /\ apiFetch' = IF r.success /\ ~extract_ok
                          THEN FetchFailed("extract", image_id, "Extraction failed")
                          ELSE r
           /\ uploads' = IF ~r.success THEN uploads
                         ELSE IF extract_ok
                              THEN RemoveFile(SaveFile(uploads, <<"temp", nFetches + 1>>),
                                              <<"temp", nFetches + 1>>)
                              ELSE SaveFile(uploads, <<"temp", nFetches + 1>>)
    /\ nFetches' = nFetches + 1
    /\ UNCHANGED <<chain, ipfs, apiHide, nRequests, codecVars, threadVars>>

api_download(image_id) ==
    /\ nFetches < MaxFetches
    /\ apiFetch' = FetchImage("download", image_id, get_image_record(chain, image_id))
    /\ nFetches' = nFetches + 1
    /\ UNCHANGED <<chain, ipfs, uploads, apiHide, nRequests, codecVars, threadVars>>

InitApp == InitWith({Carrier("RGB", 5, 1, "zeros")})

NextApp ==
    \/ \E ok \in BOOLEAN, id \in ImageIds, id2 \in ImageIds, e \in {"revert", "overwrite"} :
          api_hide(ok, id, id2, e)
    \/ \E id \in ImageIds, ok \in BOOLEAN : api_extract(id, ok)
    \/ \E id \in ImageIds : api_download(id)

SpecApp == InitApp /\ [][NextApp]_vars

(***************************************************************************)
(* Calls running at once on the one shared instance (app.py: stego is      *)
(* created once and used by every request).  Each call is split at the     *)
(* places where it reads or writes what it shares with the other calls:    *)
(* the files and the attributes of self.  Everything else it computes on   *)
(* the locals of its own frame.                                            *)
(***************************************************************************)
ThreadPaths == {"cover.png", "stego_cover.png", "out.png", "sent.png", "blank.png", "photo.png"}

\* sent.png carries "A", written there by an earlier hide_data
SentImage ==
    HideRun([p \in {"sent.png"} |-> Carrier("RGB", 4, 2, "ones")], "sent.png", <<65>>, <<>>,
            "sent.png", <<>>, <<>>).saved

ThreadFiles ==
    [p \in ThreadPaths |->
        CASE p = "cover.png" -> Carrier("RGB", 4, 2, "zeros")
          [] p = "sent.png"  -> SentImage
          [] p = "blank.png" -> Carrier("RGB", 5, 1, "zeros")
          [] p = "photo.png" -> Carrier("L", 4, 2, "mixed")
          [] OTHER -> NoFile]

InitThreads ==
    /\ files = ThreadFiles
    /\ embedded = [p \in Paths |-> NoEmbed]
    /\ sealed = {}
    /\ hideCall = NoHideCall
    /\ extractCall = NoExtractCall
    /\ decryptCall = NoDecryptCall
    /\ nHides = 0
    /\ nTampers = 0
    /\ capacityCall = NoCapacityCall
    /\ AppInit
    /\ ThreadInit

\* the calls that have started and not yet returned
InFlight(f) == f.pc \in {"Opened", "Encoded", "Scanning"}

Running == {c \in {"hide", "extract", "analyze"} : InFlight(frames[c])}

\* ---- hide_data ----
\* Image.open(image_path), convert('RGB'), np.array(img)
HideOpen(image_path, secret_data, output_path) ==
    /\ frames.hide.pc \in {"Idle", "Returned"}
    /\ frames.hide.calls < MaxCalls
    /\ files[image_path] # NoFile
    /\ frames' = [frames EXCEPT !.hide =
            [pc |-> "Opened", calls |-> frames.hide.calls + 1, during |-> Running \ {"hide"},
             image_path |-> image_path, secret_data |-> secret_data,
             output_path |-> output_path,
             img_array |-> NpArray(ConvertRGB(files[image_path])),
             data_to_hide |-> <<>>, binary_data |-> <<>>, result |-> None]]
    /\ UNCHANGED <<stego, codecVars, appVars>>

\* ''.join(format(ord(char), '08b') for char in data_to_hide) + d, d as read from self
BinaryWith(data_to_hide, d) ==
    Join(Tup([i \in 1..Len(data_to_hide) |-> Format08b(data_to_hide[i])])) \o d

\* variant: the bit string is kept on the instance, self.delimiter = binary_data
InstanceKeepsBinaryData(self, binary_data) == [self EXCEPT !.delimiter = binary_data]

\* self after hide_data has built binary_data: binary_data is a local, no
\* attribute of self is assigned
InstanceAfterEncode(self, binary_data) == self

\* binary_data = ... + self.delimiter
HideEncode ==
    /\ frames.hide.pc = "Opened"
    /\ frames' = [frames EXCEPT
            !.hide.pc = "Encoded",
            !.hide.during = @ \cup (Running \ {"hide"}),
            !.hide.data_to_hide = Payload(frames.hide.secret_data, <<>>, <<>>, <<>>).text,
            !.hide.binary_data =
                BinaryWith(Payload(frames.hide.secret_data, <<>>, <<>>, <<>>).text,
                           stego.delimiter)]
    /\ stego' = InstanceAfterEncode(stego,
                    BinaryWith(Payload(frames.hide.secret_data, <<>>, <<>>, <<>>).text,
                               stego.delimiter))
    /\ UNCHANGED <<codecVars, appVars>>

\* the capacity check, the loop on flat_img, stego_img.save(output_path), return
HideStoreResult(f) ==
    HideBits(f.img_array, [text |-> f.data_to_hide, seals |-> {}], f.binary_data,
             OutputPath(f.image_path, f.output_path))

HideStore ==
    /\ frames.hide.pc = "Encoded"
    /\ files' = IF HideStoreResult(frames.hide).ret # None
                THEN [files EXCEPT ![HideStoreResult(frames.hide).ret] =
                                        HideStoreResult(frames.hide).saved]
                ELSE files
    /\ frames' = [frames EXCEPT
            !.hide.pc = "Returned",
            !.hide.during = @ \cup (Running \ {"hide"}),
            !.hide.result = HideStoreResult(frames.hide)]
    /\ UNCHANGED <<stego, embedded, sealed, hideCall, extractCall, decryptCall, nHides,
                   nTampers, capacityCall, appVars>>

\* ---- extract_data ----
\* Image.open, np.array(img).flatten(), the loop over the LSB of every sample
ExtractScan(image_path, password) ==
    /\ frames.extract.pc \in {"Idle", "Found", "NotFound"}
    /\ frames.extract.calls < MaxCalls
    /\ files[image_path] # NoFile
    /\ frames' = [frames EXCEPT !.extract =
            [pc |-> "Scanning", calls |-> frames.extract.calls + 1,
             during |-> Running \ {"extract"},
             image_path |-> image_path, password |-> password,
             img_array |-> FlattenArray(NpArray(ConvertRGB(files[image_path]))),
             binary_data |-> LsbString(FlattenArray(NpArray(ConvertRGB(files[image_path])))),
             delimiter_index |-> -1]]
    /\ UNCHANGED <<stego, codecVars, appVars>>

\* variant: a failed search goes back to the scan
ScanOutcomeRetry(delimiter_index) == IF delimiter_index = -1 THEN "Scanning" ELSE "Found"

\* "if delimiter_index == -1: raise ValueError(...)", else the data is decoded
ScanOutcome(delimiter_index) == IF delimiter_index = -1 THEN "NotFound" ELSE "Found"

\* what the call returns or raises: decoded from its locals alone
ExtractResult(f) == ExtractAt(f.binary_data, f.delimiter_index, f.password)

\* delimiter_index = binary_data.find(self.delimiter)
ExtractResolve ==
    /\ frames.extract.pc = "Scanning"
    /\ frames' = [frames EXCEPT
            !.extract.pc = ScanOutcome(Find(frames.extract.binary_data, stego.delimiter)),
            !.extract.during = @ \cup (Running \ {"extract"}),
            !.extract.delimiter_index = Find(frames.extract.binary_data, stego.delimiter)]
    /\ UNCHANGED <<stego, codecVars, appVars>>

\* ---- analyze_image_capacity ----
\* Image.open(image_path), convert('RGB')
AnalyzeOpen(image_path) ==
    /\ frames.analyze.pc \in {"Idle", "Returned"}
    /\ frames.analyze.calls < MaxCalls
    /\ files[image_path] # NoFile
    /\ frames' = [frames EXCEPT !.analyze =
            [pc |-> "Opened", calls |-> frames.analyze.calls + 1,
             during |-> Running \ {"analyze"}, image_path |-> image_path,
             img |-> ConvertRGB(files[image_path]), result |-> None]]
    /\ UNCHANGED <<stego, codecVars, appVars>>

\* max_chars = (total_pixels - len(self.delimiter)) // 8 with self as it is now
AnalyzeWith(img, total_pixels, self) ==
    [ok |-> TRUE, total_pixels |-> total_pixels,
     max_characters |-> (total_pixels - Len(self.delimiter)) \div 8,
     max_bytes |-> (total_pixels - Len(self.delimiter)) \div 8,
     image_dimensions |-> img.size, error |-> ""]

AnalyzeCount ==
    /\ frames.analyze.pc = "Opened"
    /\ frames' = [frames EXCEPT
            !.analyze.pc = "Returned",
            !.analyze.during = @ \cup (Running \ {"analyze"}),
            !.analyze.result =
                AnalyzeWith(frames.analyze.img, ArraySize(NpArray(frames.analyze.img)), stego)]
    /\ UNCHANGED <<stego, codecVars, appVars>>

\* what the calls are called with: each on files no other call touches
HideThreadInputs == {<<65>>, <<104, 105>>}
HideThreadOutputs == {None, "out.png"}
ExtractThreadPaths == {"sent.png", "blank.png"}
ExtractThreadPasswords == {NonePw, Pw(pwP)}

NextThreads ==
    \/ \E d \in HideThreadInputs, o \in HideThreadOutputs : HideOpen("cover.png", d, o)
    \/ HideEncode
    \/ HideStore
    \/ \E p \in ExtractThreadPaths, pw \in ExtractThreadPasswords : ExtractScan(p, pw)
    \/ ExtractResolve
    \/ AnalyzeOpen("photo.png")
    \/ AnalyzeCount

\* an extract call that has scanned the file is run on to the search
SpecThreads ==
    /\ InitThreads
    /\ [][NextThreads]_vars
    /\ WF_vars(ExtractResolve)

(***************************************************************************)
(* Vocabulary of the properties, stated on the stored files themselves.    *)
(***************************************************************************)
ExtractOutcome == <<extractCall.ok, extractCall.value, extractCall.error>>

Failure(msg) == <<FALSE, <<>>, "Data extraction failed: " \o msg>>

\* the file extract_data was called on, and what hide_data had embedded in it
Scanned == files[extractCall.image_path]
Hidden == embedded[extractCall.image_path]

\* the LSB of sample i of an image, in RGB scan order
LsbAt(img, i) ==
    IF img.mode = "RGB" THEN img.data[i] % 2 ELSE img.data[((i - 1) \div 3) + 1] % 2

SampleCount(img) == img.size[1] * img.size[2] * 3

MarkerAt(img, i) == \A k \in 1..16 : LsbAt(img, i + k) = (IF k = 16 THEN 0 ELSE 1)

HasMarker(img) == \E i \in 0..(SampleCount(img) - 16) : MarkerAt(img, i)

\* 0-based bit index of the first marker
FirstMarker(img) ==
    CHOOSE i \in 0..(SampleCount(img) - 16) :
        MarkerAt(img, i) /\ \A j \in 0..(i - 1) : ~MarkerAt(img, j)

\* the value of the k-th 8-bit group, most significant bit first
GroupCode(img, k) ==
    LET b(j) == LsbAt(img, 8 * (k - 1) + j)
    IN  128 * b(1) + 64 * b(2) + 32 * b(3) + 16 * b(4) + 8 * b(5) + 4 * b(6) + 2 * b(7) + b(8)

IsAscii(str) == \A i \in 1..Len(str) : str[i] <= 127

(***************************************************************************)
(* C1 (as stated): every string S with len(S.bytes)*8 + 16 <= capacity     *)
(* that hide_data embedded with an empty password is returned exactly by   *)
(* extract_data called with no password.                                   *)
(***************************************************************************)
PlainRoundTripCase ==
    /\ extractCall.called
    /\ ~Truthy(extractCall.password)
    /\ Hidden.state = "intact"
    /\ Hidden.password = <<>>

C1_RoundTripEveryString ==
    (/\ PlainRoundTripCase
     /\ 8 * Len(Utf8Encode(Hidden.secret_data)) + 16 <= MaxChars(SampleCount(Scanned)))
    => ExtractOutcome = <<TRUE, Hidden.secret_data, "">>

(***************************************************************************)
(* C1 (amended): every NON-EMPTY string S of characters with codes 0..127  *)
(* that hide_data embedded with an empty password is returned exactly by   *)
(* extract_data called with no password.                                   *)
(***************************************************************************)
C1_RoundTripAscii ==
    (/\ PlainRoundTripCase
     /\ Hidden.secret_data # <<>>
     /\ IsAscii(Hidden.secret_data))
    => ExtractOutcome = <<TRUE, Hidden.secret_data, "">>

\* "hi" read back from the 300-sample image of the concrete scenario
C1_Witness ==
    /\ PlainRoundTripCase
    /\ SampleCount(Scanned) = 300
    /\ Hidden.secret_data = <<104, 105>>
    /\ 8 * Len(Utf8Encode(Hidden.secret_data)) + 16 <= MaxChars(SampleCount(Scanned))
    /\ extractCall.value = <<104, 105>>

(***************************************************************************)
(* C2 (as stated): for all strings S and non-empty passwords P whose embed *)
(* succeeded, extract_data with P returns exactly S.                       *)
(***************************************************************************)
SecretRoundTripCase ==
    /\ extractCall.called
    /\ Truthy(extractCall.password)
    /\ Hidden.state = "intact"
    /\ Hidden.password = extractCall.password.s

C2_RoundTripEveryString ==
    SecretRoundTripCase => ExtractOutcome = <<TRUE, Hidden.secret_data, "">>

(***************************************************************************)
(* C2 (amended): for all NON-EMPTY strings S and non-empty passwords P     *)
(* whose embed succeeded, extract_data with P returns exactly S, whatever  *)
(* salt and nonce were drawn.                                              *)
(***************************************************************************)
C2_RoundTripNonEmpty ==
    (SecretRoundTripCase /\ Hidden.secret_data # <<>>)
    => ExtractOutcome = <<TRUE, Hidden.secret_data, "">>

\* a non-ASCII plaintext read back through the envelope
C2_Witness ==
    /\ SecretRoundTripCase
    /\ Hidden.secret_data = <<104, 233>>
    /\ extractCall.value = <<104, 233>>

(***************************************************************************)
(* C3: data embedded with password P1 and extracted with a non-empty       *)
(* password P2 # P1 always ends in the authentication-failure error and    *)
(* returns no plaintext.                                                   *)
(***************************************************************************)
WrongPasswordCase ==
    /\ extractCall.called
    /\ Truthy(extractCall.password)
    /\ Hidden.state = "intact"
    /\ Hidden.password # <<>>
    /\ Hidden.password # extractCall.password.s

C3_WrongPasswordFailsClosed ==
    WrongPasswordCase
    => ExtractOutcome = Failure("Incorrect password or corrupted encrypted data")

C3_Witness ==
    /\ WrongPasswordCase
    /\ Hidden.secret_data # <<>>
    /\ ~extractCall.ok
    /\ extractCall.detail = "Decryption failed: MAC check failed"

(***************************************************************************)
(* C4: an embed whose bit sequence (payload bits + 16 marker bits) is      *)
(* exactly as long as the sample count succeeds; one bit longer, it fails  *)
(* with the capacity error.                                                *)
(***************************************************************************)
C4_CapacityBoundary ==
    (hideCall.called /\ hideCall.before # <<>>)
    => /\ Len(hideCall.binary_data) = Len(hideCall.before)
            => /\ hideCall.ret # None
               /\ hideCall.printed = "Data hidden successfully"
       /\ Len(hideCall.binary_data) = Len(hideCall.before) + 1
            => /\ hideCall.ret = None
               /\ hideCall.printed = "Image too small"

C4_Witness ==
    /\ hideCall.called
    /\ Len(hideCall.before) = 24
    /\ Len(hideCall.binary_data) = 24
    /\ hideCall.ret = "stego_cover.png"
    /\ files["stego_cover.png"] # NoFile

(***************************************************************************)
(* C5: a hide_data call whose bit sequence is longer than the sample count *)
(* fails before any sample is modified: the pixel buffer and every file    *)
(* are unchanged, and no output image is produced.                         *)
(***************************************************************************)
C5_CapacityFailureAtomic ==
    [][ (/\ nHides' = nHides + 1
         /\ Len(hideCall'.binary_data) > Len(hideCall'.before)
         /\ hideCall'.before # <<>>)
        => /\ files' = files
           /\ hideCall'.ret = None
           /\ hideCall'.samples = hideCall'.before ]_vars

C5_Witness ==
    /\ hideCall.called
    /\ hideCall.before # <<>>
    /\ Len(hideCall.binary_data) > Len(hideCall.before)
    /\ hideCall.ret = None
    /\ \A p \in Paths : p # "cover.png" => files[p] = NoFile

(***************************************************************************)
(* C6: after a successful embed every sample at a flattened index beyond   *)
(* the bit sequence has exactly the value it had in the original buffer.   *)
(***************************************************************************)
C6_MutationIsolation ==
    (hideCall.called /\ hideCall.ret # None)
    => /\ Len(hideCall.samples) = Len(hideCall.before)
       /\ \A i \in (Len(hideCall.binary_data) + 1)..Len(hideCall.before) :
             /\ hideCall.samples[i] = hideCall.before[i]
             /\ embedded[hideCall.ret].state = "intact"
                   => files[hideCall.ret].data[i] = hideCall.before[i]

\* an embed that leaves samples with LSB 1 beyond the bit sequence
C6_Witness ==
    /\ hideCall.called
    /\ hideCall.ret # None
    /\ Len(hideCall.binary_data) < Len(hideCall.before)
    /\ hideCall.before[Len(hideCall.before)] % 2 = 1
    /\ files[hideCall.ret].data[Len(hideCall.before)] = hideCall.before[Len(hideCall.before)]

(***************************************************************************)
(* C7: extract_data on an image whose LSB sequence does not contain the    *)
(* 16-bit marker fails with the no-hidden-data error and returns nothing.  *)
(***************************************************************************)
C7_NoDataDetection ==
    (extractCall.called /\ Scanned # NoFile /\ ~HasMarker(Scanned))
    => ExtractOutcome = Failure("No hidden data found or data corrupted")

C7_Witness ==
    /\ extractCall.called
    /\ Scanned # NoFile
    /\ ~HasMarker(Scanned)
    /\ \E i \in 1..SampleCount(Scanned) : LsbAt(Scanned, i) = 1
    /\ ~extractCall.ok

(***************************************************************************)
(* C8 (as stated): whenever an 8-bit group before the marker is above 127, *)
(* extract_data fails; it never returns a partial payload.                 *)
(***************************************************************************)
\* the marker starts at a multiple of 8 and group k is the first one above 127
FirstInvalidGroup(img, k) ==
    /\ img # NoFile
    /\ HasMarker(img)
    /\ FirstMarker(img) % 8 = 0
    /\ 8 * k <= FirstMarker(img)
    /\ GroupCode(img, k) > 127
    /\ \A j \in 1..(k - 1) : GroupCode(img, j) <= 127

C8_InvalidByteIsError ==
    (extractCall.called /\ \E k \in 1..3 : FirstInvalidGroup(Scanned, k))
    => ~extractCall.ok

(***************************************************************************)
(* C8 (amended): when group k is the first 8-bit group before the marker   *)
(* that is above 127, extract_data without a password returns the text of  *)
(* the groups before it, without an error, and fails (no valid data) only  *)
(* when k is the first group.                                              *)
(***************************************************************************)
C8_InvalidByteTruncates ==
    \A k \in 1..3 :
        (/\ extractCall.called
         /\ ~Truthy(extractCall.password)
         /\ FirstInvalidGroup(Scanned, k))
        => IF k = 1
           THEN ExtractOutcome = Failure("No valid data could be extracted")
           ELSE ExtractOutcome = <<TRUE, [j \in 1..(k - 1) |-> GroupCode(Scanned, j)], "">>

\* "h" returned for an embedded "h" + e-acute
C8_Witness ==
    /\ extractCall.called
    /\ ~Truthy(extractCall.password)
    /\ FirstInvalidGroup(Scanned, 2)
    /\ Hidden.secret_data = <<104, 233>>
    /\ ExtractOutcome = <<TRUE, <<104>>, "">>

(***************************************************************************)
(* C9 (as stated): _decrypt_data, given a string that is not valid base64  *)
(* or that decodes to fewer than 48 bytes, fails and never returns a       *)
(* plaintext.                                                              *)
(***************************************************************************)
\* canonical base64: quads of alphabet characters, '=' only as the last one
\* or two characters
IsBase64(text) ==
    /\ Len(text) % 4 = 0
    /\ \A i \in 1..Len(text) :
          \/ B64Value(text[i]) < 64
          \/ /\ text[i] = 61
             /\ i >= Len(text) - 1
             /\ i = Len(text) - 1 => text[Len(text)] = 61

C9_MalformedEnvelopeFails ==
    (/\ decryptCall.called
     /\ \/ ~IsBase64(decryptCall.encrypted_data)
        \/ 3 * Len(decryptCall.encrypted_data) < 4 * 48)
    => /\ ~decryptCall.ok
       /\ decryptCall.text = <<>>

(***************************************************************************)
(* C10: a password extraction that fails because the password is wrong and *)
(* one that fails because the embedded envelope was corrupted give the     *)
(* caller of extract_data the same outcome: one fixed error, no detail.    *)
(***************************************************************************)
CorruptedEnvelopeCase ==
    /\ extractCall.called
    /\ Truthy(extractCall.password)
    /\ Hidden.state = "tampered"
    /\ Hidden.password = extractCall.password.s
    /\ Hidden.tamperedAt <= 8 * Len(Hidden.data_to_hide)
    /\ ~extractCall.ok

C10_NoDecryptionOracle ==
    (WrongPasswordCase \/ CorruptedEnvelopeCase)
    => ExtractOutcome = Failure("Incorrect password or corrupted encrypted data")

\* a corrupted envelope whose decryption failed for another reason than the
\* wrong password's "MAC check failed"
C10_Witness ==
    /\ CorruptedEnvelopeCase
    /\ extractCall.detail = "Decryption failed: Incorrect padding"

(***************************************************************************)
(* C11 (as stated): whenever hide_data or extract_data fails (capacity     *)
(* exceeded, marker absent, invalid length, invalid byte, decryption       *)
(* failure) the value its caller receives names the failure, and is never  *)
(* a success value.                                                        *)
(***************************************************************************)
\* what the caller of hide_data receives: the return value alone (the
\* message of the exception goes to standard output)
HideOutcome == hideCall.ret

HideFailure == hideCall.called /\ hideCall.printed # "Data hidden successfully"

\* the file scanned holds a defect extract_data is to report
ExtractDefect ==
    /\ extractCall.called
    /\ Scanned # NoFile
    /\ \/ ~HasMarker(Scanned)
       \/ HasMarker(Scanned) /\ FirstMarker(Scanned) % 8 # 0
       \/ \E k \in 1..3 : FirstInvalidGroup(Scanned, k)
       \/ WrongPasswordCase

ExtractErrors ==
    { "Data extraction failed: No hidden data found or data corrupted",
      "Data extraction failed: Invalid data length - not divisible by 8",
      "Data extraction failed: Incorrect password or corrupted encrypted data",
      "Data extraction failed: No valid data could be extracted" }

C11_NoSwallowedError ==
    /\ HideFailure => HideOutcome = hideCall.printed
    /\ ExtractDefect => ~extractCall.ok /\ extractCall.error \in ExtractErrors

(***************************************************************************)
(* C12: whenever the first marker occurrence in the scanned LSB sequence   *)
(* is at a bit index that is not a multiple of 8, extract_data fails with  *)
(* the invalid-length error and returns no payload.                        *)
(***************************************************************************)
MisalignedMarker(img) == img # NoFile /\ HasMarker(img) /\ FirstMarker(img) % 8 # 0

C12_InvalidLength ==
    (extractCall.called /\ MisalignedMarker(Scanned))
    => ExtractOutcome = Failure("Invalid data length - not divisible by 8")

\* a marker written 9 bits into the image, after a nine-digit character
C12_Witness ==
    /\ extractCall.called
    /\ MisalignedMarker(Scanned)
    /\ Hidden.state = "intact"
    /\ FirstMarker(Scanned) = 9
    /\ ~extractCall.ok

(***************************************************************************)
(* C13: analyze_image_capacity returns, as max_bytes and max_characters,   *)
(* floor((sampleCount - 16) / 8) with sampleCount = height * width * 3,    *)
(* and a payload of whole bytes is embedded in that image exactly when it  *)
(* has at most that many bytes.                                            *)
(***************************************************************************)
Analyzed == files[capacityCall.image_path]

\* the number of whole payload bytes of the bit sequence of the last hide_data
PayloadBytes == (Len(hideCall.binary_data) - 16) \div 8

AnalyzedHideCase ==
    /\ capacityCall.called
    /\ capacityCall.ok
    /\ hideCall.called
    /\ hideCall.image_path = capacityCall.image_path
    /\ (Len(hideCall.binary_data) - 16) % 8 = 0

C13_CapacityFormula ==
    (capacityCall.called /\ Analyzed # NoFile)
    => /\ capacityCall.ok
       /\ capacityCall.total_pixels = SampleCount(Analyzed)
       /\ capacityCall.max_bytes = (SampleCount(Analyzed) - 16) \div 8
       /\ capacityCall.max_characters = capacityCall.max_bytes
       /\ AnalyzedHideCase => (hideCall.ret # None <=> PayloadBytes <= capacityCall.max_bytes)

\* one byte in 24 samples: the capacity is 1 and the byte was embedded
C13_Witness ==
    /\ AnalyzedHideCase
    /\ SampleCount(Analyzed) = 24
    /\ capacityCall.max_bytes = 1
    /\ PayloadBytes = 1
    /\ hideCall.ret # None

(***************************************************************************)
(* C14: an empty password bypasses the cipher on both paths: hide_data     *)
(* with an empty password embeds the plaintext itself, and extract_data    *)
(* with an empty or absent password returns the recovered text without     *)
(* attempting a decryption, whatever was embedded.                         *)
(***************************************************************************)
NoPasswordExtract == extractCall.called /\ extractCall.password.s = <<>>

C14_EmptyPasswordBypass ==
    /\ (hideCall.called /\ hideCall.password = <<>> /\ hideCall.before # <<>>)
       => /\ hideCall.data_to_hide = hideCall.secret_data
          /\ hideCall.ret # None => embedded[hideCall.ret].data_to_hide = hideCall.secret_data
    /\ NoPasswordExtract
       => /\ extractCall.detail = ""
          /\ extractCall.error # "Data extraction failed: Incorrect password or corrupted encrypted data"
          /\ extractCall.recovered # <<>> => ExtractOutcome = <<TRUE, extractCall.recovered, "">>
          /\ (Hidden.state = "intact" /\ Hidden.data_to_hide # <<>> /\ IsAscii(Hidden.data_to_hide))
             => ExtractOutcome = <<TRUE, Hidden.data_to_hide, "">>

\* password "" given: the envelope embedded under a password comes back as it is
C14_Witness ==
    /\ NoPasswordExtract
    /\ extractCall.password.given
    /\ Hidden.state = "intact"
    /\ Hidden.password # <<>>
    /\ Len(Hidden.data_to_hide) = 68
    /\ extractCall.value = Hidden.data_to_hide

(***************************************************************************)
(* C15 (as stated): for every plaintext S embedded without a password the  *)
(* bit sequence written is the MSB-first 8-bit expansion of each byte of   *)
(* S's UTF-8 encoding, in order, followed by the 16-bit marker; its length *)
(* is 8*len(S.bytes) + 16.                                                 *)
(***************************************************************************)
\* bit j (1 = most significant) of byte number k of a byte sequence
MsbFirstBits(bytes) ==
    [n \in 1..(8 * Len(bytes)) |-> (bytes[((n - 1) \div 8) + 1] \div 2 ^ (7 - ((n - 1) % 8))) % 2]

Marker == [k \in 1..16 |-> IF k = 16 THEN 0 ELSE 1]

PlainEmbedCase == hideCall.called /\ hideCall.ret # None /\ hideCall.password = <<>>

C15_BitSequenceOfUtf8 ==
    PlainEmbedCase
    => /\ hideCall.binary_data = MsbFirstBits(Utf8Encode(hideCall.secret_data)) \o Marker
       /\ Len(hideCall.binary_data) = 8 * Len(Utf8Encode(hideCall.secret_data)) + 16

(***************************************************************************)
(* C15 (amended): for every plaintext S of characters with codes 0..127    *)
(* embedded without a password the bit sequence written is the MSB-first   *)
(* 8-bit expansion of each byte of S's UTF-8 encoding, in order, followed  *)
(* by the 16-bit marker; its length is 8*len(S.bytes) + 16.                *)
(***************************************************************************)
C15_BitSequenceOfAscii ==
    (PlainEmbedCase /\ IsAscii(hideCall.secret_data))
    => /\ hideCall.binary_data = MsbFirstBits(Utf8Encode(hideCall.secret_data)) \o Marker
       /\ Len(hideCall.binary_data) = 8 * Len(Utf8Encode(hideCall.secret_data)) + 16

\* "hi": 01101000 01101001 and the marker
C15_Witness ==
    /\ PlainEmbedCase
    /\ hideCall.secret_data = <<104, 105>>
    /\ hideCall.binary_data =
          <<0,1,1,0,1,0,0,0, 0,1,1,0,1,0,0,1, 1,1,1,1,1,1,1,1,1,1,1,1,1,1,1,0>>

(***************************************************************************)
(* C16: after a successful embed, for every flattened index i below        *)
(* len(bitSequence) the output sample is the input sample with only its    *)
(* least significant bit replaced by bitSequence[i]; extract_data reads    *)
(* the LSBs in the same row-major, channel-minor order, so bit i read back *)
(* is bitSequence[i].                                                      *)
(***************************************************************************)
\* sample i, in raster order, of an image seen as RGB
RgbSample(img, i) == IF img.mode = "RGB" THEN img.data[i] ELSE img.data[((i - 1) \div 3) + 1]

StoredEmbedCase ==
    /\ hideCall.called
    /\ hideCall.ret # None
    /\ embedded[hideCall.ret].state = "intact"

C16_LsbSubstitution ==
    StoredEmbedCase
    => LET out == files[hideCall.ret]
           read == LsbString(FlattenArray(NpArray(ConvertRGB(out))))
       IN  \A i \in 1..Len(hideCall.binary_data) :
              /\ out.data[i] \div 2 = hideCall.before[i] \div 2
              /\ out.data[i] % 2 = hideCall.binary_data[i]
              /\ read[i] = hideCall.binary_data[i]
              /\ hideCall.image_path # hideCall.ret
                    => hideCall.before[i] = RgbSample(files[hideCall.image_path], i)

\* sample 4 of the 10x10 image: 159 becomes 158, bit 4 of "h" being 0
C16_Witness ==
    /\ StoredEmbedCase
    /\ SampleCount(files[hideCall.ret]) = 300
    /\ hideCall.before[4] = 159
    /\ hideCall.binary_data[4] = 0
    /\ files[hideCall.ret].data[4] = 158

(***************************************************************************)
(* C17: for every non-empty payload of characters 0..127 and every carrier *)
(* it fits in, whatever the carrier's prior LSB contents, the first        *)
(* occurrence of the marker in the stego image's LSB sequence is at bit    *)
(* index 8*len(payload), so extract_data returns exactly the most recently *)
(* embedded payload.                                                       *)
(***************************************************************************)
\* the stored image holds, intact, a non-empty payload of characters 0..127
AsciiEmbedCase ==
    /\ StoredEmbedCase
    /\ hideCall.data_to_hide # <<>>
    /\ IsAscii(hideCall.data_to_hide)

InvalidAt(img, m, k) ==
    /\ 8 * k <= m
    /\ GroupCode(img, k) > 127
    /\ \A j \in 1..(k - 1) : GroupCode(img, j) <= 127

GroupPrefix(img, k) == [j \in 1..(k - 1) |-> GroupCode(img, j)]

TruncatedAt(img, k) ==
    /\ extractCall.recovered = GroupPrefix(img, k)
    /\ extractCall.password.s = <<>>
          => /\ extractCall.ok <=> k > 1
             /\ extractCall.ok => ExtractOutcome = <<TRUE, GroupPrefix(img, k), "">>
             /\ ~extractCall.ok => ExtractOutcome = Failure("No valid data could be extracted")

C18_StrictAsciiTruncation ==
    (extractCall.called /\ Scanned # NoFile /\ HasMarker(Scanned))
    => LET m == FirstMarker(Scanned)
       IN  m % 8 = 0
           => \A k \in 1..(m \div 8) : InvalidAt(Scanned, m, k) => TruncatedAt(Scanned, k)

\* password None, "h" + e-acute in the 300-sample image: "h" is returned
C18_Witness ==
    /\ extractCall.called
    /\ ~extractCall.password.given
    /\ SampleCount(Scanned) = 300
    /\ HasMarker(Scanned)
    /\ FirstMarker(Scanned) = 16
    /\ InvalidAt(Scanned, 16, 2)
    /\ extractCall.recovered = <<104>>
    /\ extractCall.ok

(***************************************************************************)
(* C19: every string _encrypt_data produces consists only of base64        *)
(* characters (all codes <= 127), so on the password path the decoding     *)
(* loop never truncates the envelope: the text handed to _decrypt_data     *)
(* equals the embedded envelope character for character.                   *)
(***************************************************************************)
\* A-Z a-z 0-9 + / =
Base64Alphabet == (65..90) \cup (97..122) \cup (48..57) \cup {43, 47, 61}

C19_EnvelopeTextSafe ==
    /\ (hideCall.called /\ hideCall.password # <<>> /\ hideCall.before # <<>>)
       => /\ Len(hideCall.data_to_hide) >= 64
          /\ \A i \in 1..Len(hideCall.data_to_hide) :
                hideCall.data_to_hide[i] \in Base64Alphabet /\ hideCall.data_to_hide[i] <= 127
    /\ (/\ extractCall.called
        /\ extractCall.password.s # <<>>
        /\ Hidden.state = "intact"
        /\ Hidden.password # <<>>)
       => extractCall.recovered = Hidden.data_to_hide

\* the envelope made with salt bytes 201..216, read back whole under the
\* wrong password
C19_Witness ==
    /\ WrongPasswordCase
    /\ Len(Hidden.data_to_hide) = 68
    /\ Hidden.data_to_hide[1] = 121
    /\ extractCall.recovered = Hidden.data_to_hide

(***************************************************************************)
(* C20 (as stated): whenever /api/hide responds with success, the imageId  *)
(* of the response is the key under which store_image_record wrote this    *)
(* request's (ipfsHash, metadataHash), so a later /api/extract or          *)
(* /api/download with that imageId retrieves the image this request        *)
(* uploaded, even when the id first generated already existed on chain.    *)
(***************************************************************************)
C20_ReturnedIdIsStoredId ==
    (apiHide.called /\ apiHide.success)
    => /\ apiHide.imageId = apiHide.storedAs
       /\ chain[apiHide.imageId] = [ipfs_hash |-> apiHide.ipfsHash,
                                    metadata_hash |-> apiHide.metadataHash, exists |-> TRUE]
       /\ (apiFetch.called /\ apiFetch.success /\ apiFetch.imageId = apiHide.imageId)
             => apiFetch.image = ImageHash(apiHide.request)

(***************************************************************************)
(* C21: capacity on the password path.  hide_data with a non-empty         *)
(* password and a plaintext of N UTF-8 bytes succeeds exactly when         *)
(* 8 * 4 * ceil((48 + N) / 3) + 16 <= sampleCount: what is embedded is the *)
(* base64 text of the (48 + N)-byte envelope, not the plaintext.           *)
(***************************************************************************)
PlainByteCount == Len(Utf8Encode(hideCall.secret_data))

EnvelopeTextLen == 4 * ((48 + PlainByteCount + 2) \div 3)

PasswordHideCase ==
    /\ hideCall.called
    /\ hideCall.password # <<>>
    /\ hideCall.before # <<>>

C21_PasswordPathCapacity ==
    PasswordHideCase
    => /\ Len(hideCall.data_to_hide) = EnvelopeTextLen
       /\ (hideCall.ret # None)
             <=> (8 * EnvelopeTextLen + 16 <= SampleCount(files[hideCall.image_path]))

\* a 3-byte plaintext ("h" and a two-byte character): 51 envelope bytes, 68
\* characters, 560 bits, stored in the 561-sample carrier
C21_Witness ==
    /\ PasswordHideCase
    /\ hideCall.secret_data = <<104, 233>>
    /\ PlainByteCount = 3
    /\ SampleCount(files[hideCall.image_path]) = 561
    /\ Len(hideCall.binary_data) = 560
    /\ hideCall.ret # None

\* the same plaintext refused by the 528-sample carrier
C21_WitnessRefused ==
    /\ PasswordHideCase
    /\ hideCall.secret_data = <<104, 233>>
    /\ SampleCount(files[hideCall.image_path]) = 528
    /\ hideCall.ret = None

(***************************************************************************)
(* C22: no interference between concurrent operations.  For any            *)
(* interleaving of hide_data, extract_data and analyze_image_capacity      *)
(* calls on distinct image files through the one shared instance, each     *)
(* call returns the same result and writes the same output as if it ran    *)
(* alone, and the delimiter, the only instance state, is never written     *)
(* after construction.  "Alone" is the sequential run on the files as they *)
(* were before any call started.                                           *)
(***************************************************************************)
HideAlone ==
    HideRun(ThreadFiles, frames.hide.image_path, frames.hide.secret_data, <<>>,
            frames.hide.output_path, <<>>, <<>>)

ExtractAlone == ExtractRun(ThreadFiles, frames.extract.image_path, frames.extract.password)

AnalyzeAlone == AnalyzeRun(ThreadFiles, frames.analyze.image_path)

ExtractReturned == frames.extract.pc \in {"Found", "NotFound"}

C22_NoInterference ==
    /\ stego.delimiter = delimiter
    /\ frames.hide.pc = "Returned"
          => /\ frames.hide.result.ret = HideAlone.ret
             /\ frames.hide.result.printed = HideAlone.printed
             /\ HideAlone.ret # None => files[HideAlone.ret] = HideAlone.saved
    /\ ExtractReturned => ExtractResult(frames.extract) = ExtractAlone
    /\ frames.analyze.pc = "Returned" => frames.analyze.result = AnalyzeAlone
    /\ \A p \in {"cover.png", "sent.png", "blank.png", "photo.png"} : files[p] = ThreadFiles[p]

\* the three calls have returned, each having run while the other two were
\* between their first and last step
C22_Witness ==
    /\ frames.hide.pc = "Returned"
    /\ frames.hide.result.ret = "stego_cover.png"
    /\ frames.hide.during = {"extract", "analyze"}
    /\ frames.extract.pc = "Found"
    /\ ExtractResult(frames.extract).value = <<65>>
    /\ frames.extract.during = {"hide", "analyze"}
    /\ frames.analyze.pc = "Returned"
    /\ frames.analyze.result.max_bytes = 1
    /\ frames.analyze.during = {"hide", "extract"}

(***************************************************************************)
(* C24: the per-call extraction state machine.  Every extract call moves   *)
(* Idle -> Scanning -> exactly one of Found or NotFound, terminates after  *)
(* a single pass over the samples, never re-enters Scanning (no retry),    *)
(* leaves the pixel buffer unmodified, and yields the same outcome for the *)
(* same buffer and password.                                               *)
(***************************************************************************)
ExtractStep == frames'.extract # frames.extract

ExtractBuffer == files[frames.extract.image_path]

C24_Transitions ==
    ExtractStep
    => /\ frames.extract.pc = "Idle" => frames'.extract.pc = "Scanning"
       /\ frames.extract.pc = "Scanning"
             => /\ frames'.extract.pc \in {"Found", "NotFound"}
                /\ frames'.extract.calls = frames.extract.calls
                /\ frames'.extract.img_array = frames.extract.img_array
                /\ frames'.extract.binary_data = frames.extract.binary_data
       /\ frames.extract.pc \in {"Found", "NotFound"}
             => /\ frames'.extract.pc = "Scanning"
                /\ frames'.extract.calls = frames.extract.calls + 1
       /\ files' = files

C24_Outcome ==
    ExtractReturned
    => /\ ExtractResult(frames.extract) = ExtractRun(files, frames.extract.image_path,
                                             frames.extract.password)
       /\ (frames.extract.pc = "Found") <=> HasMarker(ExtractBuffer)
       /\ frames.extract.pc = "NotFound"
             => ExtractResult(frames.extract)
                  = ExtractFailed("No hidden data found or data corrupted", <<>>, "")
       /\ frames.extract.img_array = FlattenArray(NpArray(ConvertRGB(ExtractBuffer)))

C24_ExtractionStateMachine ==
    /\ [][C24_Transitions]_vars
    /\ [](frames.extract.pc \in {"Idle", "Scanning", "Found", "NotFound"})
    /\ []C24_Outcome
    /\ (frames.extract.pc = "Scanning") ~> ExtractReturned

\* a call that found the marker of sent.png and returned "A", the file as it was
C24_Witness ==
    /\ frames.extract.pc = "Found"
    /\ frames.extract.image_path = "sent.png"
    /\ frames.extract.delimiter_index = 8
    /\ ExtractResult(frames.extract).ok
    /\ ExtractResult(frames.extract).value = <<65>>
    /\ ExtractBuffer = SentImage

\* a call on blank.png, which carries no marker
C24_WitnessNotFound ==
    /\ frames.extract.pc = "NotFound"
    /\ frames.extract.image_path = "blank.png"
    /\ frames.extract.delimiter_index = -1
    /\ ~ExtractResult(frames.extract).ok

(***************************************************************************)
(* C23 (as stated): no temporary file is left behind.  Once a /api/hide or *)
(* /api/extract request has returned its response, on the success path and *)
(* on every failure path, the temporary file it wrote into the uploads     *)
(* folder (the saved upload for hide, the temp_*.png for extract) no       *)
(* longer exists.  The stego output of /api/hide is kept on purpose and is *)
(* not such a file.                                                        *)
(***************************************************************************)
TemporaryFiles == {f \in uploads : f[1] \in {"upload", "temp"}}

C23_NoTemporaryFileLeft == TemporaryFiles = {}

\* the part that holds: /api/hide leaves no saved upload, on either path
C23_HideLeavesNoUpload == \A f \in uploads : f[1] # "upload"

====
